---- MODULE Spec2Model ----
(***************************************************************************)
(* CO2 alarm device (CO2AlarmSystem.ino): threshold classification, the    *)
(* buzzer/timer state machine of loop(), the 15 s upload gate and the      *)
(* blocking AT command engine used by connectToWiFi and sendToThingSpeak.  *)
(*                                                                         *)
(* The sketch never uses millis() by itself, only differences              *)
(* millis() - <timestamp> compared with a constant.  The model therefore   *)
(* keeps, for every timestamp of the sketch, the time elapsed since it was *)
(* taken (in ms), and stops counting once the elapsed time is past the     *)
(* constant it is compared with:                                           *)
(*     sinceSend    = millis() - lastSendTime          (loop)              *)
(*     sinceToggle  = millis() - ledStartTime          (ledBlink)          *)
(*     sinceEnv     = millis() - measurementTimestamp  (measureEnvironment)*)
(*     elapsed      = millis() - startTime             (sendCommand)       *)
(* A loop() pass that does not upload is one step; a pass that uploads is  *)
(* suspended while the blocking command engine runs and LoopResume runs    *)
(* the rest of it.                                                         *)
(***************************************************************************)
EXTENDS Integers, Sequences, FiniteSets, TLC

\* ------------------------------------------------------------------ bounds
MaxTimers == 2         \* timer slots of the SimpleTimer object
MaxCount == 3          \* the link stops answering once countTrueCommand is here

\* ------------------------------------------------------- program constants
sendInterval == 15000
FindTimeout == 1000    \* Stream::find gives up after this long without input
SettleDelay == 1500
BlinkPeriod == 500
EnvInterval == 3000

\* --------------------------------------------------- environment's choices
\* An environment fixes what the device is offered:
\*   readings  the ppm values co2_sensor.measure() may deliver
\*   ticks     the time that may pass between two passes of loop()
\*   hits      how long after the start of a find() call the expected text
\*             may be read
\*   misses    how long a find() call that fails may take (FindTimeout after
\*             the last input)
\*   probe     what dht_sensor.measure() may return
\*   watch     whether the passes in the upload branch are timed
\* The alarm environment offers one reading per band, a negative one and the
\* values of the end-to-end scenario, over a link that answers at once or
\* stays silent.
Env(rd, tk, hi, mi, pr, wa) ==
  [readings |-> rd, ticks |-> tk, hits |-> hi, misses |-> mi, probe |-> pr,
   watch |-> wa]

AlarmEnv == [readings |-> {-1, 500, 1500, 2500, 6000, 10000, 30000},
             ticks |-> {5000},
             hits |-> {0},
             misses |-> {FindTimeout},
             probe |-> {FALSE, TRUE},
             watch |-> FALSE]

VARIABLES
  pc,                 \* "setup" | "wifi" | "loop" | "upload" | "classify"
  step,               \* statement of connectToWiFi / sendToThingSpeak reached
  polling,            \* inside the while loop of sendCommand
  elapsed,            \* sendCommand: millis() - startTime
  maxTime,            \* sendCommand: maxTime of the running call
  found,              \* global found
  countTrueCommand,   \* global countTrueCommand
  sent,               \* what the running routine has written to esp8266 so far
  results,            \* outcome of each sendCommand call of the running routine
  markerAt,           \* elapsed when the expected text was read (-1: never)
  ppm,                \* co2_sensor.ppm
  co2Level,           \* global co2Level
  cur,                \* loop: currentCO2Threshold of the latest pass
  lastCO2Threshold,   \* global lastCO2Threshold
  timerId,            \* global timerId
  timers,             \* SimpleTimer slots: slot -> period (0: free)
  buzzerDuration,     \* buzzerManager: static buzzerDuration
  buzzer,             \* last request to the buzzer: -1 noTone, else tone duration
  pulses,             \* buzzerManager calls of the latest pass: [ppm, dur]
  sinceSend,          \* loop: millis() - lastSendTime
  rgb,                \* <<RED, GREEN, BLUE>> duty cycles
  ledOn,              \* ledBlink: static ledOn
  sinceToggle,        \* ledBlink: millis() - ledStartTime
  sinceEnv,           \* measureEnvironment: millis() - measurementTimestamp
                      \* (-1 before the static is initialised)
  envValid,           \* loop: temperature/humidity hold a sample of this pass
  fresh,              \* co2_sensor.measure() succeeded in the latest pass
  uploaded,           \* the latest pass invoked sendToThingSpeak
  gate,               \* millis() - lastSendTime when the latest pass started
  immediate,          \* the latest pass ran the immediate buzzerManager() call
  cancelled,          \* the latest pass deleted a timer
  elig,               \* the latest pass with a reading in the upload branch
  pair,               \* that pass as it was when the latest pass started
  blink,              \* ledBlink called at a fixed rate: the rate, the time
                      \* of the latest call and the toggles made so far
  args,               \* sendToThingSpeak: temperature, humidity and co2 of
                      \* the running call
  sampled,            \* the samples dht_sensor.measure() has delivered so far
  trail,              \* when a sequence of readings is played: what each
                      \* reading has led to, in the order of the readings
  armedAt             \* co2Level when the timer behind timerId was set
                      \* (0: no timer)

vars == <<pc, step, polling, elapsed, maxTime, found, countTrueCommand, sent,
          results, markerAt, ppm, co2Level, cur, lastCO2Threshold, timerId,
          timers, buzzerDuration, buzzer, pulses, sinceSend, rgb, ledOn,
          sinceToggle, sinceEnv, envValid, fresh, uploaded, gate, immediate,
          cancelled, elig, pair, blink, args, sampled, trail,
    armedAt>>

\* what the command engine owns, apart from the clocks
cmdVars == <<polling, maxTime, found, countTrueCommand, results, markerAt>>
\* what loop() owns, apart from the clocks
alarmVars == <<ppm, co2Level, cur, lastCO2Threshold, timerId, timers, buzzerDuration,
               buzzer, pulses, rgb, ledOn, envValid, fresh, uploaded, gate,
               immediate, cancelled, pair, blink, args, sampled, trail,
    armedAt>>
\* everything that follows millis()
clockVars == <<elapsed, sinceSend, sinceToggle, sinceEnv, elig>>

Free == 0
Slots == 0 .. (MaxTimers - 1)
NoElig == [since |-> -1, uploaded |-> FALSE, done |-> -1]
NoBlink == [every |-> 0, span |-> 0, toggles |-> 0]
NoArgs == [temperature |-> 0, humidity |-> 0, co2 |-> 0]
NoTrail == [on |-> FALSE, seen |-> <<>>]

\* what dht_sensor.measure() writes to *temperature and *humidity
ProbeSample == [temperature |-> 21, humidity |-> 40]

\* what a float of loop() that has not been assigned in this pass may hold:
\* the value left in its place by an earlier pass, or anything else
Unassigned == {ProbeSample, [temperature |-> -999, humidity |-> -999]}

BLUE_BOOT == <<0, 0, 255>>
GREEN_SAFE == <<0, 255, 0>>
AMBER == <<255, 100, 0>>
RED_ONLY == <<255, 0, 0>>
LED_OFF == <<0, 0, 0>>

Min(a, b) == IF a < b THEN a ELSE b

\* ------------------------------------------------------------------ clocks
\* millis() advances by dt: every elapsed time grows by dt (elapsed is not
\* counted further than one step past maxTime)
Elapse(dt) ==
  /\ elapsed' = IF polling THEN Min(elapsed + dt, maxTime + dt) ELSE elapsed
  /\ sinceSend' = Min(sinceSend + dt, sendInterval)
  /\ sinceToggle' = Min(sinceToggle + dt, BlinkPeriod)
  /\ sinceEnv' = IF sinceEnv = -1 THEN -1 ELSE Min(sinceEnv + dt, EnvInterval + 1)
  /\ elig' = IF elig.since = -1 THEN elig
             ELSE [since |-> Min(elig.since + dt, sendInterval),
                   uploaded |-> elig.uploaded,
                   done |-> IF elig.done = -1 THEN -1
                            ELSE Min(elig.done + dt, sendInterval)]

\* ------------------------------------------------------------ command table
\* a slip: the join is given the short timeout of the other two commands
WifiCmd_ShortJoin(s) ==
  IF s = 1 THEN [cmd |-> "AT", arg |-> 0, maxTime |-> 2000, expect |-> "OK"]
  ELSE IF s = 2
  THEN [cmd |-> "AT+CWMODE=1", arg |-> 0, maxTime |-> 2000, expect |-> "OK"]
  ELSE [cmd |-> "AT+CWJAP", arg |-> 0, maxTime |-> 2000, expect |-> "OK"]

\* connectToWiFi: the three sendCommand calls
WifiCmd(s) ==
  IF s = 1 THEN [cmd |-> "AT", arg |-> 0, maxTime |-> 2000, expect |-> "OK"]
  ELSE IF s = 2
  THEN [cmd |-> "AT+CWMODE=1", arg |-> 0, maxTime |-> 2000, expect |-> "OK"]
  ELSE [cmd |-> "AT+CWJAP", arg |-> 0, maxTime |-> 10000, expect |-> "OK"]

\* String(n) of an int: the digits and the sign
IntLen(n) ==
  LET a == IF n < 0 THEN 0 - n ELSE n
      digits == IF a < 10 THEN 1 ELSE IF a < 100 THEN 2 ELSE IF a < 1000 THEN 3
                ELSE IF a < 10000 THEN 4 ELSE 5
  IN IF n < 0 THEN digits + 1 ELSE digits

\* String(f) of a float: two decimal places
FloatLen(f) == IntLen(f) + 3

\* sendToThingSpeak: request.length(), for "GET /update?api_key=" + API +
\* "&field1=" + ... + "&field2=" + ... + "&field3=" + ... + "\r\n"
RequestLength(a) ==
  20 + 7 + 8 + FloatLen(a.temperature) + 8 + FloatLen(a.humidity)
     + 8 + IntLen(a.co2) + 2

\* a slip: the announced length leaves out the line terminator
UploadCmd_NoTerminator(s) ==
  IF s = 1
  THEN [cmd |-> "AT+CIPSTART", arg |-> 0, maxTime |-> 4000, expect |-> "OK"]
  ELSE IF s = 2
  THEN [cmd |-> "AT+CIPSEND", arg |-> RequestLength(args),
        maxTime |-> 2000, expect |-> ">"]
  ELSE [cmd |-> "AT+CIPCLOSE", arg |-> 0, maxTime |-> 2000, expect |-> "OK"]

\* sendToThingSpeak: statements 1, 2 and 4 are sendCommand calls, 3 is the
\* raw write of the request followed by delay(1500)
UploadCmd(s) ==
  IF s = 1
  THEN [cmd |-> "AT+CIPSTART", arg |-> 0, maxTime |-> 4000, expect |-> "OK"]
  ELSE IF s = 2
  THEN [cmd |-> "AT+CIPSEND", arg |-> RequestLength(args) + 2,
        maxTime |-> 2000, expect |-> ">"]
  ELSE [cmd |-> "AT+CIPCLOSE", arg |-> 0, maxTime |-> 2000, expect |-> "OK"]

IsCommandStep == \/ pc = "wifi" /\ step \in 1..3
                 \/ pc = "upload" /\ step \in {1, 2, 4}

CurrentCmd == IF pc = "wifi" THEN WifiCmd(step) ELSE UploadCmd(step)

\* ------------------------------------------------------------------- Init
InitRest ==
  /\ step = 0
  /\ polling = FALSE
  /\ elapsed = 0
  /\ maxTime = 0
  /\ found = FALSE
  /\ countTrueCommand = 0
  /\ sent = <<>>
  /\ results = <<>>
  /\ markerAt = -1
  /\ co2Level = 0
  /\ cur = -1
  /\ lastCO2Threshold = -2
  /\ timerId = -1
  /\ timers = [s \in Slots |-> Free]
  /\ buzzerDuration = 0
  /\ buzzer = -1
  /\ pulses = <<>>
  /\ sinceSend = 0
  /\ rgb = LED_OFF
  /\ ledOn = FALSE
  /\ sinceToggle = 0
  /\ sinceEnv = -1
  /\ envValid = FALSE
  /\ fresh = FALSE
  /\ uploaded = FALSE
  /\ gate = 0
  /\ immediate = FALSE
  /\ cancelled = FALSE
  /\ elig = NoElig
  /\ pair = NoElig
  /\ args = NoArgs
  /\ sampled = {}
  /\ armedAt = 0

\* the state at power-on, before setup()
Init ==
  /\ pc = "setup"
  /\ ppm = 0
  /\ blink = NoBlink
  /\ trail = NoTrail
  /\ InitRest

\* ---------------------------------------------------------------- setup()
\* setup(): the lamp glows blue and connectToWiFi() is entered
Setup ==
  /\ pc = "setup"
  /\ pc' = "wifi"
  /\ step' = 1
  /\ sent' = <<>>
  /\ results' = <<>>
  /\ rgb' = BLUE_BOOT
  /\ UNCHANGED <<polling, maxTime, found, countTrueCommand, markerAt, ppm,
                 co2Level, cur, lastCO2Threshold, timerId, timers, buzzerDuration,
                 buzzer, pulses, ledOn, envValid, fresh, uploaded, gate,
                 immediate, cancelled, pair, blink, args, sampled, trail,
    armedAt>>
  /\ UNCHANGED clockVars

\* ------------------------------------------------------------ sendCommand
\* esp8266.println(command); long startTime = millis();
SendCommandWrite ==
  /\ IsCommandStep
  /\ ~polling
  /\ sent' = Append(sent, [cmd |-> CurrentCmd.cmd, arg |-> CurrentCmd.arg,
                            expect |-> CurrentCmd.expect])
  /\ elapsed' = 0
  /\ maxTime' = CurrentCmd.maxTime
  /\ markerAt' = -1
  /\ polling' = TRUE
  /\ UNCHANGED <<pc, step, found, countTrueCommand, results>>
  /\ UNCHANGED <<sinceSend, sinceToggle, sinceEnv, elig>>
  /\ UNCHANGED alarmVars

\* a slip: the loop only ends with the break
StillWaiting_UntilFound(e, mt) == TRUE

\* the while condition of sendCommand
StillWaiting(e, mt) == e < mt

\* one evaluation of the while condition followed by one esp8266.find() call:
\* find() blocks until the expected text has been read (hit, after d ms) or
\* until no input has arrived for FindTimeout (miss, after d ms)
SendCommandFind(hit, d) ==
  /\ polling
  /\ ~found
  /\ StillWaiting(elapsed, maxTime)
  /\ hit => countTrueCommand < MaxCount
  /\ found' = hit
  /\ markerAt' = IF hit THEN elapsed + d ELSE markerAt
  /\ Elapse(d)
  /\ UNCHANGED <<pc, step, polling, maxTime, countTrueCommand, sent, results>>
  /\ UNCHANGED alarmVars

\* sendCommand: the counter after the two ifs that follow the loop
CountAfter(f, n) == IF f = TRUE THEN n + 1 ELSE n

\* the loop is left (break or timeout); the outcome is logged and counted
SendCommandReturn ==
  /\ polling
  /\ found \/ ~StillWaiting(elapsed, maxTime)
  /\ countTrueCommand' = CountAfter(found, countTrueCommand)
  /\ results' = Append(results, found)
  /\ found' = FALSE
  /\ polling' = FALSE
  /\ step' = step + 1
  /\ UNCHANGED <<pc, maxTime, sent, markerAt>>
  /\ UNCHANGED clockVars
  /\ UNCHANGED alarmVars

\* a routine has returned: its record of the link traffic is dropped
CallOver ==
  /\ sent' = <<>>
  /\ results' = <<>>
  /\ markerAt' = -1
  /\ maxTime' = 0
  /\ elapsed' = 0

\* connectToWiFi() has returned; co2_sensor.begin(); loop() starts
SetupDone ==
  /\ pc = "wifi"
  /\ step = 4
  /\ pc' = "loop"
  /\ step' = 0
  /\ CallOver
  /\ UNCHANGED <<polling, found, countTrueCommand>>
  /\ UNCHANGED <<sinceSend, sinceToggle, sinceEnv, elig>>
  /\ UNCHANGED alarmVars

\* sendToThingSpeak: esp8266.print(request); delay(1500);
UploadPayload ==
  /\ pc = "upload"
  /\ step = 3
  /\ sent' = Append(sent, [cmd |-> "request", arg |-> RequestLength(args),
                            expect |-> ""])
  /\ Elapse(SettleDelay)
  /\ step' = 4
  /\ UNCHANGED pc
  /\ UNCHANGED cmdVars
  /\ UNCHANGED alarmVars


\* ------------------------------------------------------- pure helpers
\* a slip: the first boundary is tested with <=
Classify_Inclusive(p) ==
  IF p <= 1000 THEN 0
  ELSE IF p >= 1000 /\ p < 2500 THEN 1
  ELSE IF p >= 2500 /\ p < 5000 THEN 2
  ELSE IF p >= 5000 /\ p < 10000 THEN 3
  ELSE IF p >= 10000 /\ p < 30000 THEN 4
  ELSE IF p >= 30000 THEN 5
  ELSE -1

\* loop(): the if / else-if chain that sets currentCO2Threshold (-1 when no
\* branch assigns it)
Classify(p) ==
  IF p < 1000 THEN 0
  ELSE IF p >= 1000 /\ p < 2500 THEN 1
  ELSE IF p >= 2500 /\ p < 5000 THEN 2
  ELSE IF p >= 5000 /\ p < 10000 THEN 3
  ELSE IF p >= 10000 /\ p < 30000 THEN 4
  ELSE IF p >= 30000 THEN 5
  ELSE -1

\* a slip: the upload sits in the branch of every reading from 1000 ppm up
InUploadBranch_FromElevated(p) == ~(p < 1000)

\* loop(): the outer else branch, the only place that may upload
InUploadBranch(p) == ~(p < 1000) /\ ~(p >= 1000 /\ p < 2500)

\* a slip: the rate-limit test uses 10 s
UploadDue_Early(since) == since >= 10000

\* loop(): the rate-limit test in front of sendToThingSpeak
UploadDue(since) == since >= sendInterval

\* a slip: the clock is only set when every command of the upload succeeded
ClockAfterUpload_OnSuccess(res, since) ==
  IF \A i \in DOMAIN res : res[i] THEN 0 ELSE since

\* loop(): lastSendTime = millis() after sendToThingSpeak has returned,
\* whatever the outcomes res of its commands
ClockAfterUpload(res, since) == 0

\* buzzerManager(): the three independent ifs that update the static duration
BuzzerSelect(c, old) ==
  LET d1 == IF c >= 1000 /\ c < 5000 THEN 2000 ELSE old
      d2 == IF c >= 5000 /\ c < 10000 THEN 1000 ELSE d1
      d3 == IF c >= 10000 THEN 500 ELSE d2
  IN d3

\* a slip: the pulse works on the ppm kept from the moment the timer was set
BuzzerManager_AtArm(c, old) ==
  [ppm |-> armedAt, tone |-> TRUE, dur |-> BuzzerSelect(armedAt, old)]

\* buzzerManager(): one call with co2Level = c and the static duration at
\* old; tone(14, NOTE_C5, buzzerDuration) is requested in every case
BuzzerManager(c, old) ==
  [ppm |-> c, tone |-> TRUE, dur |-> BuzzerSelect(c, old)]

\* a slip: the level test always succeeds
LevelChanged_Always(lv, last) == TRUE

\* a slip: only a rise of the level counts as a change
LevelChanged_Rise(lv, last) == lv > last

\* loop(): the test in front of the buzzer system logic
LevelChanged(lv, last) == lv # last

\* a slip: case 5 of the switch is missing
TimerPeriod_NoCase5(level) ==
  IF level = 2 THEN 10000
  ELSE IF level = 3 THEN 5000
  ELSE IF level = 4 THEN 1000
  ELSE 0

\* loop(): the switch that arms the periodic timer (0: no case matches)
TimerPeriod(level) ==
  IF level = 2 THEN 10000
  ELSE IF level = 3 THEN 5000
  ELSE IF level = 4 THEN 1000
  ELSE IF level = 5 THEN 1000
  ELSE 0

Armed(tm) == {s \in Slots : tm[s] > 0}

\* timer.run(): the callbacks it makes; the library decides which armed
\* timers are due (run: those armed now are)
DueSlots(tm, run) == IF run THEN Armed(tm) ELSE {}

\* timer.deleteTimer(id)
DeleteTimer(tm, id) ==
  IF id \in Slots THEN [tm EXCEPT ![id] = Free] ELSE tm

\* a slip: the handle is reset but the timer is not deleted
CancelTimer_NoDelete(tm, id) == [timers |-> tm, timerId |-> -1]

\* loop(): if(timerId != -1) { timer.deleteTimer(timerId); timerId = -1; }
CancelTimer(tm, id) ==
  IF id # -1 THEN [timers |-> DeleteTimer(tm, id), timerId |-> -1]
  ELSE [timers |-> tm, timerId |-> id]

\* timer.setInterval(period, buzzerManager): first free slot, -1 when full
SetInterval(tm, period) ==
  IF Armed(tm) = Slots THEN [timers |-> tm, timerId |-> -1]
  ELSE LET s == CHOOSE x \in Slots \ Armed(tm) :
                  \A y \in Slots \ Armed(tm) : x <= y
       IN [timers |-> [tm EXCEPT ![s] = period], timerId |-> s]

\* n calls of buzzerManager() in a row, all with the same co2Level
RECURSIVE Repeat(_, _)
Repeat(x, n) == IF n = 0 THEN <<>> ELSE <<x>> \o Repeat(x, n - 1)

\* a slip: the toggle waits until more than 500 ms have passed
LedBlink_Strict(c, led) ==
  IF led.sinceToggle > BlinkPeriod
  THEN LET on == ~led.ledOn
       IN [ledOn |-> on,
           sinceToggle |-> 0,
           rgb |-> IF on
                   THEN (IF c >= 30000 \/ c <= 0 THEN RED_ONLY ELSE AMBER)
                   ELSE LED_OFF]
  ELSE led

\* ledBlink(co2Level); led is [rgb, ledOn, sinceToggle]
LedBlink(c, led) ==
  IF led.sinceToggle >= BlinkPeriod
  THEN LET on == ~led.ledOn
       IN [ledOn |-> on,
           sinceToggle |-> 0,
           rgb |-> IF on
                   THEN (IF c >= 30000 \/ c <= 0 THEN RED_ONLY ELSE AMBER)
                   ELSE LED_OFF]
  ELSE led

\* loop(): the indicator part of the branch taken for level lv
Indicator(lv, c, led) ==
  IF lv = 0 THEN [led EXCEPT !.rgb = GREEN_SAFE]
  ELSE IF lv = 2 THEN [led EXCEPT !.rgb = AMBER]
  ELSE IF lv = 4 THEN [led EXCEPT !.rgb = RED_ONLY]
  ELSE IF lv \in {1, 3, 5} THEN LedBlink(c, led)
  ELSE led

\* ---------------------------------------------------------------- loop()
\* measureEnvironment(&temperature, &humidity): the static timestamp is set
\* on the first call; a sample is taken when more than 3 s have passed and
\* the probe delivers one (ok, which takes dht_sensor.measure() to be called)
MeasureEnvironment(ok) ==
  LET since == IF sinceEnv = -1 THEN 0 ELSE sinceEnv
      success == (since > EnvInterval) /\ ok
  IN /\ ok => since > EnvInterval
     /\ sinceEnv' = IF success THEN 0 ELSE since
     /\ envValid' = success
     /\ sampled' = IF success THEN sampled \cup {ProbeSample} ELSE sampled

\* loop(): the buzzer system logic and the environment sample that end a
\* pass.  has/lv/c are this pass's reading, tm/bd/bz/pl the timer slots,
\* buzzer duration, buzzer request and pulses as the first part left them.
LoopTail(has, lv, c, tm, bd, bz, pl, ok) ==
  LET change == has /\ LevelChanged(lv, lastCO2Threshold)
      can == CancelTimer(tm, timerId)
      bd2 == BuzzerSelect(c, bd)
      per == TimerPeriod(lv)
      arm == IF per > 0 THEN SetInterval(can.timers, per) ELSE can
  IN /\ IF change
        THEN /\ timers' = arm.timers
             /\ timerId' = arm.timerId
             /\ buzzerDuration' = bd2
             /\ buzzer' = bd2
             /\ pulses' = Append(pl, BuzzerManager(c, bd))
             /\ immediate' = TRUE
             /\ cancelled' = (timerId # -1)
             /\ lastCO2Threshold' = lv
             /\ armedAt' = IF arm.timerId # -1 THEN c ELSE 0
        ELSE /\ timers' = tm
             /\ buzzerDuration' = bd
             /\ buzzer' = bz
             /\ pulses' = pl
             /\ immediate' = FALSE
             /\ cancelled' = FALSE
             /\ UNCHANGED <<timerId, lastCO2Threshold, armedAt>>
     /\ MeasureEnvironment(ok)
     /\ trail' = IF trail.on /\ has
                 THEN [trail EXCEPT !.seen = Append(@,
                        [ppm |-> c, level |-> lv, rgb |-> rgb',
                         period |-> IF timerId' = -1 THEN 0
                                    ELSE timers'[timerId'],
                         immediate |-> immediate', cancelled |-> cancelled',
                         uploaded |-> uploaded', gate |-> gate'])]
                 ELSE trail
     /\ pc' = "loop"
     /\ step' = 0

\* one pass of loop(): timer.run(), the CO2 reading (has: measure() returned
\* true, r: the ppm it delivered), classification and indicator, and either
\* the rest of the pass or the entry into sendToThingSpeak.  timer.run() can
\* only find a timer due (run) when one is armed.
LoopPass(has, r, ok, run, watch) ==
  /\ pc = "loop"
  /\ run => Armed(timers) # {}
  /\ LET nDue == Cardinality(DueSlots(timers, run))
         tm1 == timers
         bd1 == IF nDue > 0 THEN BuzzerSelect(co2Level, buzzerDuration)
                ELSE buzzerDuration
         pl1 == Repeat(BuzzerManager(co2Level, buzzerDuration), nDue)
         bz1 == IF nDue > 0 THEN bd1 ELSE buzzer
         lv == IF has THEN Classify(r) ELSE -1
         c == IF has THEN r ELSE co2Level
         led0 == [rgb |-> rgb, ledOn |-> ledOn, sinceToggle |-> sinceToggle]
         led1 == IF has THEN Indicator(lv, r, led0) ELSE led0
         bz2 == IF has /\ lv = 0 THEN -1 ELSE bz1
         inBranch == has /\ InUploadBranch(r)
         due == inBranch /\ UploadDue(sinceSend)
     IN /\ ppm' = IF has THEN r ELSE ppm
        /\ co2Level' = c
        /\ cur' = lv
        /\ fresh' = has
        /\ gate' = sinceSend
        /\ pair' = IF inBranch /\ watch THEN elig ELSE NoElig
        /\ elig' = IF inBranch /\ watch
                   THEN [since |-> 0, uploaded |-> due, done |-> -1]
                   ELSE elig
        /\ rgb' = led1.rgb
        /\ ledOn' = led1.ledOn
        /\ sinceToggle' = led1.sinceToggle
        /\ uploaded' = due
        /\ IF due
           THEN /\ ~ok
                /\ pc' = "upload"
                /\ step' = 1
                /\ sent' = <<>>
                /\ results' = <<>>
                /\ timers' = tm1
                /\ buzzerDuration' = bd1
                /\ buzzer' = bz2
                /\ pulses' = pl1
                /\ immediate' = FALSE
                /\ cancelled' = FALSE
                /\ envValid' = FALSE
                /\ \E v \in Unassigned :
                      args' = [temperature |-> v.temperature,
                               humidity |-> v.humidity, co2 |-> r]
                /\ UNCHANGED <<timerId, lastCO2Threshold, sinceEnv, sampled,
                               trail, armedAt>>
           ELSE /\ LoopTail(has, lv, c, tm1, bd1, bz2, pl1, ok)
                /\ UNCHANGED <<sent, results, args>>
  /\ UNCHANGED <<elapsed, sinceSend, blink>>
  /\ UNCHANGED <<polling, maxTime, found, countTrueCommand, markerAt>>

\* sendToThingSpeak() has returned: lastSendTime = millis(); then the rest
\* of the suspended pass
LoopResume(ok) ==
  /\ pc = "upload"
  /\ step = 5
  /\ sinceSend' = ClockAfterUpload(results, sinceSend)
  /\ elig' = IF elig.since = -1 THEN elig ELSE [elig EXCEPT !.done = 0]
  /\ UNCHANGED <<ppm, co2Level, cur, fresh, uploaded, gate, pair, rgb, ledOn,
                 sinceToggle, blink>>
  /\ LoopTail(fresh, cur, co2Level, timers, buzzerDuration, buzzer, pulses, ok)
  /\ CallOver
  /\ args' = NoArgs
  /\ UNCHANGED <<polling, found, countTrueCommand>>

\* time passes between two passes of loop()
Tick(dt) ==
  /\ pc = "loop"
  /\ Elapse(dt)
  /\ UNCHANGED <<pc, step, sent>>
  /\ UNCHANGED cmdVars
  /\ UNCHANGED alarmVars

\* the device in environment E
NextIn(E) ==
  \/ Setup
  \/ SendCommandWrite
  \/ \E d \in E.hits : SendCommandFind(TRUE, d)
  \/ \E d \in E.misses : SendCommandFind(FALSE, d)
  \/ SendCommandReturn
  \/ SetupDone
  \/ UploadPayload
  \/ \E r \in E.readings, ok \in E.probe, run \in BOOLEAN :
        LoopPass(TRUE, r, ok, run, E.watch)
  \/ \E ok \in E.probe, run \in BOOLEAN : LoopPass(FALSE, 0, ok, run, E.watch)
  \/ \E ok \in E.probe : LoopResume(ok)
  \/ \E dt \in E.ticks : Tick(dt)

Next == NextIn(AlarmEnv)

Spec == Init /\ [][Next]_vars


\* The gate environment times the passes in the upload branch; the probe is
\* absent and the link answers at once or stays silent.
GateEnv == Env({500, 1500, 2500, 6000}, {5000}, {0}, {FindTimeout}, {FALSE}, TRUE)

NextGate == NextIn(GateEnv)

SpecGate == Init /\ [][NextGate]_vars

\* The link environment lets the co-processor answer half a second into a
\* find() call, and lets other input that arrives 700 ms into a find() call
\* keep it waiting until FindTimeout after that input.
LinkEnv == Env({500, 6000}, {5000}, {0, 500},
               {FindTimeout, FindTimeout + 700}, {FALSE}, FALSE)

NextLink == NextIn(LinkEnv)

SpecLink == Init /\ [][NextLink]_vars

\* The silent environment: the co-processor is absent, so no find() call
\* ever reads the expected text, and every find() call returns FindTimeout
\* after it was made.  The processor keeps executing the routine it is in.
SilentEnv == Env({500, 1500, 6000}, {5000}, {}, {FindTimeout}, {FALSE}, FALSE)

NextSilent ==
  \/ Setup
  \/ SendCommandWrite
  \/ \E d \in SilentEnv.misses : SendCommandFind(FALSE, d)
  \/ SendCommandReturn
  \/ SetupDone
  \/ UploadPayload
  \/ \E r \in SilentEnv.readings, ok \in SilentEnv.probe, run \in BOOLEAN :
        LoopPass(TRUE, r, ok, run, SilentEnv.watch)
  \/ \E ok \in SilentEnv.probe, run \in BOOLEAN :
        LoopPass(FALSE, 0, ok, run, SilentEnv.watch)
  \/ \E ok \in SilentEnv.probe : LoopResume(ok)
  \/ \E dt \in SilentEnv.ticks : Tick(dt)

\* setup(), connectToWiFi(), sendToThingSpeak() and sendCommand() run on
\* once they are entered
Running ==
  /\ WF_vars(Setup)
  /\ WF_vars(SendCommandWrite)
  /\ WF_vars(\E d \in SilentEnv.misses : SendCommandFind(FALSE, d))
  /\ WF_vars(SendCommandReturn)
  /\ WF_vars(SetupDone)
  /\ WF_vars(UploadPayload)
  /\ WF_vars(\E ok \in SilentEnv.probe : LoopResume(ok))

SpecSilent == Init /\ [][NextSilent]_vars /\ Running

\* The timer environment offers two readings of one band that arms a timer,
\* so that a timer can fire at another ppm than the one it was set at.
TimerEnv == Env({500, 2500, 4000, 6000}, {5000}, {0}, {FindTimeout}, {FALSE},
                FALSE)

NextTimer == NextIn(TimerEnv)

SpecTimer == Init /\ [][NextTimer]_vars

\* ------------------------------------------------- a sequence of readings
\* The successful readings are those of Scenario, in this order; between
\* them time passes, measure() may fail and armed timers may fire.  The link
\* answers at once or stays silent and the probe is absent.
Scenario == <<500, 1500, 1500, 6000, 500>>

InitScenario ==
  /\ pc = "setup"
  /\ ppm = 0
  /\ blink = NoBlink
  /\ trail = [on |-> TRUE, seen |-> <<>>]
  /\ InitRest

NextScenario ==
  \/ Setup
  \/ SendCommandWrite
  \/ SendCommandFind(TRUE, 0)
  \/ SendCommandFind(FALSE, FindTimeout)
  \/ SendCommandReturn
  \/ SetupDone
  \/ UploadPayload
  \/ /\ Len(trail.seen) < Len(Scenario)
     /\ \E run \in BOOLEAN :
          LoopPass(TRUE, Scenario[Len(trail.seen) + 1], FALSE, run, FALSE)
  \/ \E run \in BOOLEAN : LoopPass(FALSE, 0, FALSE, run, FALSE)
  \/ LoopResume(FALSE)
  \/ Tick(5000)

SpecScenario == InitScenario /\ [][NextScenario]_vars

\* ---------------------------------------------------- classification alone
Spread == 4            \* readings this far around every band boundary
Boundaries == {-30000, 0, 1000, 2500, 5000, 10000, 30000, 32767 - Spread}
PpmDomain == {b + k : b \in Boundaries, k \in (0 - Spread) .. Spread}

InitClassify ==
  /\ pc = "classify"
  /\ ppm \in PpmDomain
  /\ blink = NoBlink
  /\ trail = NoTrail
  /\ InitRest

\* loop(): co2Level = co2_sensor.ppm and the if / else-if chain, for the
\* reading held in co2_sensor.ppm
ClassifyReading ==
  /\ pc = "classify"
  /\ co2Level' = ppm
  /\ cur' = Classify(ppm)
  /\ pc' = "classified"
  /\ UNCHANGED <<step, polling, elapsed, maxTime, found, countTrueCommand,
                 sent, results, markerAt, ppm, lastCO2Threshold, timerId,
                 timers, buzzerDuration, buzzer, pulses, sinceSend, rgb, ledOn,
                 sinceToggle, sinceEnv, envValid, fresh, uploaded, gate,
                 immediate, cancelled, elig, pair, blink, args, sampled,
                 trail, armedAt>>

NextClassify == ClassifyReading

SpecClassify == InitClassify /\ [][NextClassify]_vars

\* ------------------------------------------------- ledBlink at a fixed rate
Window == 2000         \* the span of clock time over which toggles are counted
CallPeriods == {10, 200, 400}
BlinkReadings == {1500, 6000, 30000}

\* the sketch sits in loop() with a reading of a blinking level, the clock
\* at 0 and ledStartTime at its initial 0
InitBlink ==
  /\ pc = "blink"
  /\ ppm \in BlinkReadings
  /\ \E p \in CallPeriods : blink = [every |-> p, span |-> 0, toggles |-> 0]
  /\ trail = NoTrail
  /\ InitRest

\* blink.every ms after the previous pass, loop() reads the same ppm again
\* and runs the indicator part of its branch, which calls ledBlink
BlinkCall ==
  /\ pc = "blink"
  /\ blink.span + blink.every <= Window
  /\ LET at == Min(sinceToggle + blink.every, BlinkPeriod)
         led0 == [rgb |-> rgb, ledOn |-> ledOn, sinceToggle |-> at]
         led1 == Indicator(Classify(ppm), ppm, led0)
     IN /\ rgb' = led1.rgb
        /\ ledOn' = led1.ledOn
        /\ sinceToggle' = led1.sinceToggle
        /\ blink' = [every |-> blink.every,
                     span |-> blink.span + blink.every,
                     toggles |-> IF led1.ledOn # ledOn THEN blink.toggles + 1
                                 ELSE blink.toggles]
  /\ co2Level' = ppm
  /\ cur' = Classify(ppm)
  /\ UNCHANGED <<pc, step, polling, elapsed, maxTime, found, countTrueCommand,
                 sent, results, markerAt, ppm, lastCO2Threshold, timerId,
                 timers, buzzerDuration, buzzer, pulses, sinceSend, sinceEnv,
                 envValid, fresh, uploaded, gate, immediate, cancelled, elig,
                 pair, args, sampled, trail, armedAt>>

NextBlink == BlinkCall

SpecBlink == InitBlink /\ [][NextBlink]_vars


\* ================================================================ claims
\* a step that completes a pass of loop() and changes what loop() owns
PassEnds == pc' = "loop" /\ alarmVars' # alarmVars

\* C1: at most one periodic timer is armed, and it is the one whose handle
\* the sketch holds: whatever was armed before a severity change has been
\* deleted before the new timer is created.
C1_OneTimerArmed ==
  /\ Cardinality(Armed(timers)) <= 1
  /\ Armed(timers) \subseteq {timerId}

\* a severity change has just replaced an armed timer by a new one
C1_Witness ==
  pc = "loop" /\ immediate /\ cancelled /\ timerId # -1

\* C2: a successful reading that classifies to the stored level cancels no
\* timer, arms no timer and fires no immediate pulse; the armed timer, the
\* handle and the stored level are the same before and after the pass.
C2_SameLevelIdempotent ==
  [][(PassEnds /\ fresh' /\ cur' = lastCO2Threshold)
       => /\ timers' = timers
          /\ timerId' = timerId
          /\ lastCO2Threshold' = lastCO2Threshold
          /\ ~immediate'
          /\ ~cancelled']_vars

\* a timer is armed and the latest reading repeated the stored level
C2_Witness ==
  pc = "loop" /\ fresh /\ ~immediate /\ cur = lastCO2Threshold /\ timerId # -1

\* the level the table of the specification gives a reading
Band(p) ==
  IF p < 1000 THEN 0
  ELSE IF p < 2500 THEN 1
  ELSE IF p < 5000 THEN 2
  ELSE IF p < 10000 THEN 3
  ELSE IF p < 30000 THEN 4
  ELSE 5

\* C3: every reading is given exactly one of the levels 0..5, the one of
\* the table, and each boundary value belongs to the higher band.
C3_ClassifyTotal ==
  pc = "classified" =>
    /\ cur \in 0..5
    /\ cur = Band(ppm)
    /\ (ppm = 999 => cur = 0) /\ (ppm = 1000 => cur = 1)
    /\ (ppm = 2499 => cur = 1) /\ (ppm = 2500 => cur = 2)
    /\ (ppm = 4999 => cur = 2) /\ (ppm = 5000 => cur = 3)
    /\ (ppm = 9999 => cur = 3) /\ (ppm = 10000 => cur = 4)
    /\ (ppm = 29999 => cur = 4) /\ (ppm = 30000 => cur = 5)

\* the reading on the highest boundary has been classified
C3_Witness == pc = "classified" /\ ppm = 30000 /\ cur = 5

ClaimedPeriod(lv) ==
  IF lv = 3 THEN 10000 ELSE IF lv = 4 THEN 5000 ELSE IF lv = 5 THEN 1000 ELSE 0

\* the timer the amended claim expects after a change to level lv (0: none)
AmendedPeriod(lv) ==
  IF lv = 2 THEN 10000 ELSE IF lv = 3 THEN 5000
  ELSE IF lv \in {4, 5} THEN 1000 ELSE 0

\* after a severity change to cur, the armed timer is the one table(cur) names
TimerMatches(table(_)) ==
  (pc = "loop" /\ immediate) =>
    IF table(cur) = 0
    THEN timerId = -1 /\ Armed(timers) = {}
    ELSE timerId \in Slots /\ Armed(timers) = {timerId}
         /\ timers[timerId] = table(cur)

\* C5 as stated: Normal, Elevated and High arm no timer, Severe arms 10 s,
\* Critical 5 s, Extreme 1 s.
C5_Original == TimerMatches(ClaimedPeriod)

\* C5 as amended: Normal and Elevated arm no timer, High arms 10 s, Severe
\* 5 s, Critical 1 s and Extreme 1 s.
C5_TimerByLevel == TimerMatches(AmendedPeriod)

\* a change to Extreme has armed its timer
C5_Witness ==
  pc = "loop" /\ immediate /\ cur = 5 /\ timerId # -1 /\ timers[timerId] = 1000

\* C6: every pulse takes its duration from the ppm current at that moment:
\* 2000 ms in [1000,5000), 1000 ms in [5000,10000), 500 ms from 10000 up,
\* and no tone at all below 1000.
C6_PulseFromCurrentPpm ==
  \A i \in DOMAIN pulses :
    LET p == pulses[i]
    IN IF p.ppm < 1000 THEN ~p.tone
       ELSE IF p.ppm < 5000 THEN p.tone /\ p.dur = 2000
       ELSE IF p.ppm < 10000 THEN p.tone /\ p.dur = 1000
       ELSE p.tone /\ p.dur = 500

Count(b) == IF b THEN 1 ELSE 0

\* C7 as stated: of two successive passes in the upload branch, exactly one
\* attempts an upload when they start less than 15 s apart, and both do when
\* they start at least 15 s apart.
C7_Original ==
  (fresh /\ InUploadBranch(ppm) /\ pair.since # -1) =>
    IF pair.since < sendInterval
    THEN Count(pair.uploaded) + Count(uploaded) = 1
    ELSE Count(pair.uploaded) + Count(uploaded) = 2

\* C7 as amended: when the first of two successive passes in the upload
\* branch attempts an upload, the second attempts one exactly if it starts
\* at least 15 s after the first attempt returned, whatever the outcome of
\* the first attempt's commands.
C7_GateFromReturn ==
  (fresh /\ InUploadBranch(ppm) /\ pair.since # -1 /\ pair.uploaded) =>
    (uploaded <=> pair.done >= sendInterval)

\* a second attempt is made although no command has ever succeeded
C7_Witness ==
  /\ fresh /\ InUploadBranch(ppm) /\ pair.uploaded /\ uploaded
  /\ pair.done >= sendInterval /\ countTrueCommand = 0

\* C8 as stated: lastSendTime changes only after an upload whose commands
\* all succeeded.
C8_Original ==
  [][(sinceSend' < sinceSend) => (\A i \in DOMAIN results : results[i])]_vars

\* C8 as amended: lastSendTime is set to the current time when an upload
\* invocation returns, whether or not its commands succeeded, and at no
\* other time; an upload is only entered 15 s or more after that.
C8_ClockSetOnReturn ==
  [][/\ (pc = "upload" /\ step = 5 /\ pc' = "loop") => sinceSend' = 0
     /\ (sinceSend' < sinceSend) => (pc = "upload" /\ step = 5)
     /\ (pc = "loop" /\ pc' = "upload") => sinceSend >= sendInterval]_vars

\* the clock has just been set by an upload none of whose commands succeeded
C8_Witness ==
  pc = "loop" /\ uploaded /\ sinceSend = 0 /\ countTrueCommand = 0

\* C9: sendToThingSpeak is only entered by a pass with a successful reading
\* of 2500 ppm or more, at least 15 s after lastSendTime; a pass with a lower
\* reading or none neither uploads nor sets lastSendTime.
C9_UploadOnlyWhenDue ==
  /\ []((uploaded \/ pc = "upload")
          => (fresh /\ ppm >= 2500 /\ gate >= sendInterval))
  /\ [][(pc = "loop" /\ ~(fresh' /\ ppm' >= 2500))
          => (pc' = "loop" /\ ~uploaded' /\ sinceSend' >= sinceSend)]_vars

\* a pass has entered sendToThingSpeak
C9_Witness ==
  pc = "upload" /\ step = 1 /\ uploaded /\ fresh /\ ppm >= 2500

\* C10: a call reports success exactly when the expected text arrived
\* before maxTime had elapsed since the write.
C10_SuccessIffInTime ==
  (pc \in {"wifi", "upload"} /\ ~polling /\ Len(results) > 0 /\ maxTime > 0) =>
    (results[Len(results)] <=> (markerAt # -1 /\ markerAt < maxTime))

\* the time between two toggles when ledBlink is called every p ms: the
\* first multiple of p that is 500 ms or more
Interval(p) == ((BlinkPeriod + p - 1) \div p) * p

\* the last call of the span has been made
SpanOver == pc = "blink" /\ blink.span + blink.every > Window

\* C11 as stated: over the span the indicator is toggled once per 500 ms,
\* the same number of times whatever the call period.
C11_Original ==
  SpanOver => blink.toggles = Window \div BlinkPeriod

\* C11 as amended: a toggle is made by the first call that comes 500 ms or
\* more after the previous toggle, so with a call every p ms the toggles are
\* Interval(p) apart and never less than 500 ms apart.
C11_ToggleAtFirstCallDue ==
  pc = "blink" =>
    /\ blink.toggles = blink.span \div Interval(blink.every)
    /\ blink.toggles * BlinkPeriod <= blink.span

\* called every 200 ms, the indicator has toggled three times in the span
C11_Witness ==
  SpanOver /\ blink.every = 200 /\ blink.toggles = 3

\* the outputs the claim allows for a reading of level lv
ColoursOf(lv) ==
  IF lv = 0 THEN {GREEN_SAFE}
  ELSE IF lv = 2 THEN {AMBER}
  ELSE IF lv = 4 THEN {RED_ONLY}
  ELSE IF lv \in {1, 3} THEN {AMBER, LED_OFF}
  ELSE {RED_ONLY, LED_OFF}

\* C12: once a successful reading has been processed the indicator shows
\* the colour of its level: green for Normal, amber for High, red for
\* Critical, amber or off for Elevated and Severe, red or off for Extreme.
C12_IndicatorMatchesLevel ==
  (pc = "loop" /\ fresh) => rgb \in ColoursOf(cur)

\* what the claim expects an upload of a request of n bytes to write
ClaimedUpload(n) ==
  <<[cmd |-> "AT+CIPSTART", arg |-> 0, expect |-> "OK"],
    [cmd |-> "AT+CIPSEND", arg |-> n + 2, expect |-> ">"],
    [cmd |-> "request", arg |-> n, expect |-> ""],
    [cmd |-> "AT+CIPCLOSE", arg |-> 0, expect |-> "OK"]>>

\* the writes and the finished commands of an upload that has reached
\* statement st (busy: inside the command of that statement)
WritesAt(st, busy) == IF busy THEN st ELSE st - 1
FinishedAt(st) == IF st <= 3 THEN st - 1 ELSE st - 2

\* C13: an upload writes open-transport, length announcement (request
\* length plus 2, waiting for ">"), payload and close-transport, each once
\* and in this order whatever the outcomes; nothing is retried or skipped,
\* a command is over before the next write and the settle delay follows the
\* payload.
C13_UploadSequence ==
  /\ [](pc = "upload" =>
          /\ Len(sent) = WritesAt(step, polling)
          /\ sent = SubSeq(ClaimedUpload(RequestLength(args)), 1, Len(sent))
          /\ Len(results) = FinishedAt(step)
          /\ (step = 5 => sent = ClaimedUpload(RequestLength(args))))
  /\ [][(pc = "upload" /\ sent' # sent /\ pc' = "upload")
          => (~polling /\ Len(sent') = Len(sent) + 1)]_vars
  /\ [][(pc = "upload" /\ step = 3 /\ step' = 4
            /\ sinceEnv \in 0 .. (EnvInterval - SettleDelay))
          => sinceEnv' = sinceEnv + SettleDelay]_vars

\* an upload has run to its end although its first command timed out and a
\* later one succeeded
C13_Witness ==
  /\ pc = "upload" /\ step = 5 /\ Len(sent) = 4
  /\ results[1] = FALSE /\ results[3] = TRUE

\* what the claim expects bring-up to write, and the timeouts it names
ClaimedBringUp ==
  <<[cmd |-> "AT", arg |-> 0, expect |-> "OK"],
    [cmd |-> "AT+CWMODE=1", arg |-> 0, expect |-> "OK"],
    [cmd |-> "AT+CWJAP", arg |-> 0, expect |-> "OK"]>>
ClaimedTimeouts == <<2000, 2000, 10000>>

\* C14: bring-up issues liveness check, mode set and network join, in this
\* order and once each, with timeouts 2000, 2000 and 10000 ms; a failed
\* command does not keep the later ones from being issued, and bring-up is
\* never entered again.
C14_BringUpSequence ==
  /\ [](pc = "wifi" =>
          /\ Len(sent) = WritesAt(step, polling)
          /\ sent = SubSeq(ClaimedBringUp, 1, Len(sent))
          /\ Len(results) = step - 1
          /\ (polling => maxTime = ClaimedTimeouts[step])
          /\ (step = 4 => sent = ClaimedBringUp))
  /\ [][(pc = "wifi" /\ sent' # sent /\ pc' = "wifi")
          => (~polling /\ Len(sent') = Len(sent) + 1)]_vars
  /\ [][(pc \notin {"setup", "wifi"}) => pc' # "wifi"]_vars

\* bring-up has run to its end although the liveness check timed out and
\* the join succeeded
C14_Witness ==
  /\ pc = "wifi" /\ step = 4 /\ Len(sent) = 3
  /\ results[1] = FALSE /\ results[3] = TRUE

\* C15: with a link that never answers, every sendCommand call returns,
\* bring-up completes and loop() is reached, every upload returns, and the
\* reading of the pass that uploaded is classified and taken up by the
\* alarm state machine, as is every other successful reading.
C15_SilentLinkProgress ==
  /\ (pc = "setup") ~> (pc = "loop")
  /\ polling ~> ~polling
  /\ (pc = "upload") ~> (pc = "loop" /\ fresh /\ lastCO2Threshold = cur)
  /\ [](countTrueCommand = 0)
  /\ [][(PassEnds /\ fresh')
          => /\ cur' = Classify(ppm')
             /\ lastCO2Threshold' = cur'
             /\ (cur' \in {0, 2, 4} => rgb' \in ColoursOf(cur'))]_vars

\* an upload over the silent link has returned and the alarm state machine
\* has taken up the reading of its pass
C15_Witness ==
  /\ pc = "loop" /\ uploaded /\ immediate /\ countTrueCommand = 0
  /\ ppm = 6000 /\ lastCO2Threshold = 3 /\ timerId # -1

\* the sequence of readings has been played to its end
Played == pc = "loop" /\ Len(trail.seen) = Len(Scenario)

\* what the scenario has in common as stated and as amended: the levels, the
\* pulses, the timers of the Normal and Elevated steps and one telemetry
\* attempt, made by the 6000 ppm step when 15 s have passed
ScenarioCommon(t) ==
  /\ t[1].level = 0 /\ t[1].rgb = GREEN_SAFE /\ t[1].period = 0
  /\ t[1].immediate /\ ~t[1].uploaded
  /\ t[2].level = 1 /\ t[2].period = 0 /\ t[2].immediate /\ ~t[2].uploaded
  /\ t[3].level = 1 /\ t[3].period = 0 /\ ~t[3].immediate
  /\ ~t[3].cancelled /\ ~t[3].uploaded
  /\ t[4].level = 3 /\ t[4].immediate
  /\ (t[4].uploaded <=> t[4].gate >= sendInterval)
  /\ t[5].level = 0 /\ t[5].rgb = GREEN_SAFE /\ t[5].period = 0
  /\ t[5].immediate /\ t[5].cancelled /\ ~t[5].uploaded
  /\ Cardinality({i \in 1..5 : t[i].uploaded}) = Count(t[4].gate >= sendInterval)

\* C16 as stated: Normal solid; Elevated blinking; Elevated blinking on, no
\* re-arm; Severe solid with a 10 s timer; Normal solid, timer cancelled, no
\* telemetry; one telemetry attempt, at the 6000 ppm step.
C16_Original ==
  Played =>
    /\ ScenarioCommon(trail.seen)
    /\ trail.seen[2].rgb \in {AMBER, LED_OFF}
    /\ trail.seen[3].rgb \in {AMBER, LED_OFF}
    /\ trail.seen[4].rgb = AMBER
    /\ trail.seen[4].period = 10000

\* C16 as amended: the Severe step arms a 5 s timer and hands the indicator
\* to ledBlink, as the Elevated steps do: amber or off once ledBlink has
\* toggled, the colour left by the step before until then.
C16_Scenario ==
  Played =>
    /\ ScenarioCommon(trail.seen)
    /\ \A i \in 2..4 :
         trail.seen[i].rgb \in {AMBER, LED_OFF, trail.seen[i - 1].rgb}
    /\ trail.seen[4].period = 5000
    /\ ~trail.seen[4].cancelled

\* the sequence has been played, the 6000 ppm step has uploaded and armed
\* its timer, and the last step has cancelled it
C16_Witness ==
  /\ Played /\ trail.seen[4].uploaded /\ trail.seen[4].period = 5000
  /\ trail.seen[5].cancelled /\ timerId = -1 /\ rgb = GREEN_SAFE

\* the tone the specification gives a pulse at p ppm, p from 1000 up
ClaimedDuration(p) ==
  IF p < 5000 THEN 2000 ELSE IF p < 10000 THEN 1000 ELSE 500

\* a pass of loop() runs timer.run() and handles its reading
PassRuns == pc = "loop" /\ (pc' = "upload" \/ PassEnds)

\* C17: a pulse fired by the timer is the pulse action of the immediate
\* pulse, run on the ppm of the latest successful reading at the time it
\* fires (co2Level before the pass reads anew), and takes its duration from
\* that ppm, not from the ppm at which the timer was set.
C17_TimerPulseFromCurrentPpm ==
  [][PassRuns =>
      LET fired == Len(pulses') - Count(immediate')
      IN /\ \A i \in 1 .. fired :
              pulses'[i] = [ppm |-> co2Level, tone |-> TRUE,
                            dur |-> ClaimedDuration(co2Level)]
         /\ fired > 0 => (co2Level >= 1000 /\ armedAt # 0)
         /\ (immediate' /\ co2Level' >= 1000) =>
              pulses'[Len(pulses')] = [ppm |-> co2Level', tone |-> TRUE,
                                       dur |-> ClaimedDuration(co2Level')]]_vars

\* a timer set at 2500 ppm has fired after a reading of 4000 ppm
C17_Witness ==
  /\ pc = "loop" /\ ~immediate /\ Len(pulses) = 1 /\ pulses[1].ppm = 4000
  /\ timerId # -1 /\ armedAt = 2500

\* C18: lastCO2Threshold starts at -2, which is no level and not the -1 of
\* a pass without reading, so the first successful reading takes the
\* transition branch whatever its ppm: one immediate pulse, the timer of its
\* level, the stored level set.  From then on the stored level is the level
\* of the latest successful reading whenever a pass has ended.
C18_FirstReadingTransitions ==
  /\ [](lastCO2Threshold \in ({-2} \cup (0 .. 5)))
  /\ []((pc = "loop" /\ lastCO2Threshold # -2)
          => lastCO2Threshold = Classify(co2Level))
  /\ [][(PassEnds /\ fresh' /\ lastCO2Threshold = -2)
          => /\ immediate'
             /\ pulses'[Len(pulses')].ppm = co2Level'
             /\ lastCO2Threshold' = Classify(ppm')
             /\ IF TimerPeriod(cur') = 0 THEN timerId' = -1
                ELSE timerId' # -1 /\ timers'[timerId'] = TimerPeriod(cur')]_vars
  /\ [][(lastCO2Threshold = -2 /\ lastCO2Threshold' # -2) => fresh']_vars

\* the first successful reading, a Normal one, has taken the transition
\* branch (buzzerDuration is still 0: no reading of 1000 ppm or more has
\* come before it)
C18_Witness ==
  /\ pc = "loop" /\ fresh /\ immediate /\ ~cancelled
  /\ cur = 0 /\ lastCO2Threshold = 0 /\ timerId = -1
  /\ Len(pulses) = 1 /\ buzzerDuration = 0

\* C19: a timer is armed exactly when the stored level is one of 2, 3, 4,
\* 5; with a stored level of 0, 1 or the initial -2 there is no timer, so no
\* timer outlives the level that armed it.
C19_TimerIffArmingLevel ==
  /\ (timerId # -1) <=> (lastCO2Threshold \in {2, 3, 4, 5})
  /\ (lastCO2Threshold \in {-2, 0, 1}) => (timerId = -1 /\ Armed(timers) = {})
  /\ (timerId # -1) => timers[timerId] = TimerPeriod(lastCO2Threshold)

\* a fall from Severe to Elevated has left no timer behind
C19_Witness ==
  /\ pc = "loop" /\ immediate /\ cancelled /\ lastCO2Threshold = 1
  /\ timerId = -1 /\ Armed(timers) = {}

\* C20: the temperature and the humidity passed to sendToThingSpeak are
\* those of a sample dht_sensor.measure() has delivered earlier in the run,
\* never the value of a float that was not assigned.
C20_UploadsSampledValues ==
  pc = "upload" =>
    [temperature |-> args.temperature, humidity |-> args.humidity] \in sampled

====
